---------------------------- MODULE Spec2Model ----------------------------
(***************************************************************************)
(* A model of discord-mcp: the message collection loop of                  *)
(* get_channel_messages, the login flow _login, the session operations and *)
(* the guild and channel extraction (client.py), and the tool dispatcher   *)
(* call_tool (server.py).                                                  *)
(*                                                                         *)
(* The specifications share the module, one per layer:                     *)
(*   SpecMessages  one call of get_channel_messages, round by round        *)
(*                 (SpecMessagesFair: the same with the round kept going)  *)
(*   SpecLogin     calls of _login on the state the caller holds           *)
(*   SpecTools     two concurrent call_tool invocations                    *)
(*   SpecSession   one call of close_client, _ensure_browser or            *)
(*                 _check_logged_in on a given state                       *)
(*   SpecExtract   one call of get_guilds or get_guild_channels            *)
(*   SpecOps       calls of the four operations and of close_client, step  *)
(*                 by step, on the state the caller holds                  *)
(*   SpecRead      one call of read_recent_messages over the core          *)
(*                 (SpecReadFair: the same with the loop kept going)       *)
(* The variables of the other layers stay at their initial values.         *)
(***************************************************************************)
EXTENDS Integers, Sequences, FiniteSets, TLC

VARIABLES
    \* ---- get_channel_messages (client.py:432-601)
    pc,         \* "loop": inside the while loop, "done": returned
    limit,      \* argument limit
    before,     \* argument before (None for absent)
    after,      \* argument after (None for absent)
    dom,        \* what query_selector_all returned in the current round
    messages,   \* local list messages
    collected,  \* local counter collected
    result,     \* the returned list (<<>> until pc = "done")
    stable,     \* every query of this call returned the same elements
    \* ---- _login (client.py:135-184)
    lpc,        \* position of the running _login call, "idle" before the first
    arg,        \* the ClientState the call was given
    state,      \* the local variable state of the call
    ev,         \* the page interactions of the call, in order
    checks,     \* what each _check_logged_in of the call returned, in order
    err,        \* the exception the call raised ("none" otherwise)
    artifact,   \* state.cookies_file exists
    seeded,     \* the browser context was created from the artifact
    started,    \* the kinds of handle started and not closed since
    last_check, \* what the last _check_logged_in on the page returned
    \* ---- call_tool (server.py:160-322)
    procs,      \* the running call_tool invocations: locals and position
    gate,       \* the holder of the client's mutual-exclusion gate, or Free
    \* ---- close_client, _ensure_browser, _check_logged_in called on a state
    scall,      \* the call: operation, the state given, what the page does
    spc,        \* position of the call
    attempts,   \* the handle operations the call attempted, in order
    sret,       \* what the call returned: a state and a value
    \* ---- get_guilds (client.py:201-342), get_guild_channels (345-429)
    xcall,      \* the call: operation, guild_id, and what the page holds
    xpc,        \* position of the call
    xurl,       \* page.url during get_guilds
    todo,       \* get_guilds: the guild_elements still to click
    xout,       \* the list built so far, and returned
    xerr        \* the exception the call raised ("none" otherwise)

msgVars ==
    <<pc, limit, before, after, dom, messages, collected, result, stable>>

loginVars ==
    <<lpc, arg, state, ev, checks, err, artifact, seeded, started,
      last_check>>

toolVars == <<procs, gate>>

sessionVars == <<scall, spc, attempts, sret>>

extractVars == <<xcall, xpc, xurl, todo, xout, xerr>>

VARIABLES
    ocall,      \* the operation of client.py under way and its arguments
    opc,        \* where that operation stands
    oheld,      \* the ClientState the caller holds
    oclosed,    \* close_client has closed the handles of that state
    ostate,     \* the operation's local state
    oev,        \* the steps the operation has made, in order
    oret,       \* the message reference send_message returned
    oerr        \* what the operation raised

opVars == <<ocall, opc, oheld, oclosed, ostate, oev, oret, oerr>>

VARIABLES
    \* ---- read_recent_messages (messages.py:32-61)
    rmax,       \* argument max_messages
    rcutoff,    \* cutoff_time
    rpc,        \* "loop": at the while test, "done": returned
    rdom,       \* what the channel rendered during the latest core call
    rall,       \* local list all_messages
    rlast,      \* local last_message_id (None before the first batch)
    rbefore,    \* the before argument of the latest core call
    rbatch,     \* what the latest core call returned
    rresult     \* the returned list (<<>> until rpc = "done")

readVars == <<rmax, rcutoff, rpc, rdom, rall, rlast, rbefore, rbatch, rresult>>

vars ==
    <<msgVars, loginVars, toolVars, sessionVars, extractVars, opVars, readVars>>

-----------------------------------------------------------------------------
(* Bounds of the model *)

\* message ids rendered by the channel are 1..MaxId
MaxId == 2
\* a query returns at most MaxDom elements
MaxDom == 2
\* limit ranges over -1..MaxLimit
MaxLimit == 3

\* The longest list of guild candidates, and of anchors, on a page.
MaxElements == 2

MaxAnchors == 2

\* max_messages ranges over 0..MaxRead
MaxRead == 3

\* client.py:517, min(50, limit - collected)
SliceCap == 50

None == 0

Min(a, b) == IF a < b THEN a ELSE b
Max(a, b) == IF a > b THEN a ELSE b

-----------------------------------------------------------------------------
(* Python list slicing *)

\* s[-n:]   (client.py:517).  -0 is 0, so s[-0:] is the whole list.
PySuffix(s, n) ==
    IF n = 0 THEN s
    ELSE IF n > 0 THEN SubSeq(s, Max(1, Len(s) - n + 1), Len(s))
    ELSE SubSeq(s, Min(Len(s), -n) + 1, Len(s))

\* s[:n]    (client.py:601).  A negative n counts from the end.
PyPrefix(s, n) ==
    IF n >= 0 THEN SubSeq(s, 1, Min(n, Len(s)))
    ELSE SubSeq(s, 1, Max(0, Len(s) + n))

-----------------------------------------------------------------------------
(* The rendered message elements *)

\* The timestamp datetime.now() gives an element without a <time> child:
\* later than every rendered timestamp.
Now == MaxId + 1

\* An element: id = 0 when it has neither an id nor a data-list-item-id
\* attribute, ts = 0 when it has no <time datetime=...> child, body = "raise"
\* when a query on it raises (a detached node, a datetime that does not parse),
\* body = "empty" when it has neither message content nor an attachment link
\* (a divider, a system row).
\* Message i carries timestamp i: ids are chronologically sortable.
Elements ==
    {[id |-> i, ts |-> i, body |-> "text"] : i \in 1..MaxId}
    \cup {[id |-> 0, ts |-> 0, body |-> "text"],
          [id |-> 0, ts |-> 0, body |-> "raise"],
          [id |-> 0, ts |-> 0, body |-> "empty"]}

SeqsUpTo(S, n) == UNION {[1..k -> S] : k \in 0..n}

\* One query returns distinct nodes: no two of them carry the same id
\* attribute (nodes without one may repeat).  Any order is possible.
Doms ==
    {d \in SeqsUpTo(Elements, MaxDom) :
        \A i, j \in 1..Len(d) : (i # j /\ d[i].id # 0) => d[i].id # d[j].id}

\* Ids are strings compared as strings; rendered ids are fixed-width digit
\* strings, encoded as numbers.  "message-<n>" sorts after every digit
\* string and is encoded as a number above every id and every before/after.
SyntheticBase == MaxId + 2

\* client.py:519-534: the id attribute, else the generated "message-<collected>"
MessageId(e, coll) == IF e.id = 0 THEN SyntheticBase + coll ELSE e.id

\* client.py:550-562
Timestamp(e) == IF e.ts = 0 THEN Now ELSE e.ts

\* client.py:573-583: the DiscordMessage appended for element e
DiscordMessage(e, coll) ==
    [id |-> MessageId(e, coll), ts |-> Timestamp(e),
     content |-> IF e.body = "empty" THEN "" ELSE e.body,
     attachments |-> <<>>]

\* The for loop with no try around the extraction: an element that raises
\* ends the batch.
RECURSIVE ForElements_RaiseAborts(_, _, _, _)
ForElements_RaiseAborts(elems, msgs, coll, lim) ==
    IF elems = <<>> THEN [messages |-> msgs, collected |-> coll]
    ELSE LET e == Head(elems) IN
         IF e.body = "raise"
         THEN [messages |-> msgs, collected |-> coll]
         ELSE LET m == Append(msgs, DiscordMessage(e, coll))
                  c == coll + 1
              IN IF c >= lim THEN [messages |-> m, collected |-> c]
                 ELSE ForElements_RaiseAborts(Tail(elems), m, c, lim)

\* client.py:517-590: the for loop over the slice.  An element that raises is
\* skipped (except: continue); the loop breaks once collected >= limit.
RECURSIVE ForElements(_, _, _, _)
ForElements(elems, msgs, coll, lim) ==
    IF elems = <<>> THEN [messages |-> msgs, collected |-> coll]
    ELSE LET e == Head(elems) IN
         IF e.body = "raise"
         THEN ForElements(Tail(elems), msgs, coll, lim)
         ELSE LET m == Append(msgs, DiscordMessage(e, coll))
                  c == coll + 1
              IN IF c >= lim THEN [messages |-> m, collected |-> c]
                 ELSE ForElements(Tail(elems), m, c, lim)

-----------------------------------------------------------------------------
(* get_channel_messages *)

IdArgs == {None} \cup 1..(MaxId + 1)

\* client.py:432-489: the call with its arguments, after login, navigation and
\* the wait for the message list; the first query of the loop has returned dom.
InitMessages ==
    /\ pc = "loop"
    /\ limit \in -1..MaxLimit
    /\ before \in IdArgs
    /\ after \in IdArgs
    /\ dom \in Doms
    /\ messages = <<>>
    /\ collected = 0
    /\ result = <<>>
    /\ stable = TRUE

\* client.py:601
Return(msgs) ==
    /\ pc' = "done"
    /\ result' = PyPrefix(msgs, limit)
    /\ UNCHANGED <<dom, stable>>

\* client.py:592-594 then 493-515: scroll the first element into view, wait,
\* and query again; the page decides what is rendered next.
ScrollAndQuery ==
    /\ pc' = "loop"
    /\ dom' \in Doms
    /\ stable' = (stable /\ dom' = dom)
    /\ UNCHANGED result

\* The loop written without its three limit checks: every queried element is
\* extracted (no slice, no break) and the list is returned whole.
GetChannelMessagesRound_NoLimit ==
    /\ pc = "loop"
    /\ UNCHANGED <<limit, before, after>>
    /\ IF collected < limit
       THEN LET r == ForElements(dom, messages, collected,
                                 collected + Len(dom) + 1)
            IN /\ messages' = r.messages
               /\ collected' = r.collected
               /\ IF r.collected < limit /\ Len(dom) > 0
                  THEN ScrollAndQuery
                  ELSE /\ pc' = "done"
                       /\ result' = r.messages
                       /\ UNCHANGED <<dom, stable>>
       ELSE /\ UNCHANGED <<messages, collected>>
            /\ Return(messages)

\* client.py:491-601: one round of the while loop, up to the next query or
\* the return.
GetChannelMessagesRound ==
    /\ pc = "loop"
    /\ UNCHANGED <<limit, before, after>>
    /\ IF collected < limit
       THEN LET r == ForElements(PySuffix(dom, Min(SliceCap, limit - collected)),
                                 messages, collected, limit)
            IN /\ messages' = r.messages
               /\ collected' = r.collected
               /\ IF r.collected < limit /\ Len(dom) > 0
                  THEN ScrollAndQuery
                  ELSE Return(r.messages)
       ELSE /\ UNCHANGED <<messages, collected>>
            /\ Return(messages)

\* No call of get_channel_messages: its variables at rest.
MessagesIdle ==
    /\ pc = "done"
    /\ limit = 0
    /\ before = None
    /\ after = None
    /\ dom = <<>>
    /\ messages = <<>>
    /\ collected = 0
    /\ result = <<>>
    /\ stable = TRUE

-----------------------------------------------------------------------------
(* ClientState and the browser *)

NoHandle == "None"

\* client.py:48-60
CreateClientState ==
    [email |-> "email", password |-> "password", headless |-> TRUE,
     playwright |-> NoHandle, browser |-> NoHandle, page |-> NoHandle,
     logged_in |-> FALSE, cookies_file |-> "~/.discord_mcp_cookies.json"]

\* What the page shows to one _check_logged_in: whether the navigation and
\* the landmark wait succeed, which of the three substrings the URL holds,
\* whether the element queries raise and which elements they find.
UrlParts == {"/login", "/register", "/channels/@me"}

Observations ==
    [goto : BOOLEAN, landmark : BOOLEAN, url : SUBSET UrlParts,
     queries : BOOLEAN, guildsnav : BOOLEAN, user_settings : BOOLEAN,
     treeitem : BOOLEAN]

\* The check with the landmark wait and the element queries let fail.
CheckLoggedIn_FailOpen(st, obs) ==
    IF st.page = NoHandle THEN FALSE
    ELSE IF ~obs.goto THEN FALSE
    ELSE IF "/login" \in obs.url \/ "/register" \in obs.url THEN FALSE
    ELSE "/channels/@me" \in obs.url

\* The check without the test of the guild list container (client.py:113-115).
CheckLoggedIn_NoContainerTest(st, obs) ==
    IF st.page = NoHandle THEN FALSE
    ELSE IF ~obs.goto THEN FALSE
    ELSE IF ~obs.landmark THEN FALSE
    ELSE IF "/login" \in obs.url \/ "/register" \in obs.url THEN FALSE
    ELSE IF "/channels/@me" \notin obs.url THEN FALSE
    ELSE IF ~obs.queries THEN FALSE
    ELSE IF obs.user_settings THEN TRUE
    ELSE obs.treeitem

\* client.py:92-132
CheckLoggedIn(st, obs) ==
    IF st.page = NoHandle THEN FALSE
    ELSE IF ~obs.goto THEN FALSE
    ELSE IF ~obs.landmark THEN FALSE
    ELSE IF "/login" \in obs.url \/ "/register" \in obs.url THEN FALSE
    ELSE IF "/channels/@me" \notin obs.url THEN FALSE
    ELSE IF ~obs.queries THEN FALSE
    ELSE IF ~obs.guildsnav THEN FALSE
    ELSE IF obs.user_settings THEN TRUE
    ELSE obs.treeitem

\* The interactions of one _check_logged_in (client.py:96-103).
CheckEvents(st, obs) ==
    IF st.page = NoHandle THEN <<>>
    ELSE IF ~obs.goto THEN <<"goto /channels/@me">>
    ELSE <<"goto /channels/@me", "wait guildsnav">>

-----------------------------------------------------------------------------
(* _login, one step per awaited interaction *)

InitLogin ==
    /\ lpc = "idle"
    /\ arg = CreateClientState
    /\ state = CreateClientState
    /\ ev = <<>>
    /\ checks = <<>>
    /\ err = "none"
    /\ artifact \in BOOLEAN
    /\ seeded = FALSE
    /\ started = {}
    /\ last_check = "none"

LoginIdle ==
    /\ InitLogin
    /\ artifact = FALSE

Finished == lpc \in {"idle", "returned", "raised"}

\* The state the caller holds once a call has finished: the returned state,
\* or the state it passed when the call raised.
Held == IF lpc = "returned" THEN state ELSE arg

\* An exception leaves _login as it is (raised outside the try block).
RaiseRaw(e) ==
    /\ lpc' = "raised"
    /\ err' = e

\* client.py:183-184: raised inside the try block, wrapped on the way out.
RaiseWrapped(e) ==
    /\ lpc' = "raised"
    /\ err' = "Failed to login to Discord: " \o e

\* What the caller holds of a state: the kinds of its non-null handles.
HandlesOf(st) ==
    {h \in {"playwright", "browser", "page"} : st[h] # NoHandle}

\* client.py:135-137: the caller calls _login on the state it holds, or
\* closes that one (client.py:187-198) and calls _login on a new
\* create_client_state(); a logged-in state is returned as it is.
LoginCall ==
    /\ Finished
    /\ \E st \in {Held} \cup {[CreateClientState EXCEPT !.headless = h] :
                                  h \in BOOLEAN} :
          /\ arg' = st
          /\ state' = st
          /\ lpc' = IF st.logged_in THEN "returned" ELSE "ensure"
          /\ started' = IF st = Held THEN started
                        ELSE started \ HandlesOf(Held)
    /\ ev' = <<>>
    /\ checks' = <<>>
    /\ err' = "none"
    /\ UNCHANGED <<artifact, seeded, last_check>>

\* What _ensure_browser has started when it ends: everything, or what came
\* before the statement that raised (client.py:67-75).
LaunchOutcomes ==
    {{}, {"playwright"}, {"playwright", "browser"},
     {"playwright", "browser", "page"}}

\* The returned state built anew instead of from the given one.
Launched_FromDefaults(st) ==
    [CreateClientState EXCEPT !.playwright = "playwright",
                              !.browser = "browser",
                              !.page = "page"]

\* client.py:77-82: dc.replace(state, playwright=..., browser=..., page=...)
Launched(st) ==
    [st EXCEPT !.playwright = "playwright",
               !.browser = "browser",
               !.page = "page"]

\* client.py:139-141 with _ensure_browser, client.py:63-82
EnsureBrowser ==
    /\ lpc = "ensure"
    /\ UNCHANGED <<arg, ev, checks, artifact>>
    /\ IF state.playwright # NoHandle
       THEN /\ UNCHANGED <<state, seeded, started, last_check>>
            /\ IF state.page = NoHandle
               THEN RaiseRaw("Browser page not initialized")
               ELSE lpc' = "check1" /\ UNCHANGED err
       ELSE \E launched \in LaunchOutcomes :
               IF launched = {"playwright", "browser", "page"}
               THEN /\ state' = Launched(state)
                    /\ started' = started \cup launched
                    /\ seeded' = artifact
                    /\ last_check' = "none"
                    /\ lpc' = "check1"
                    /\ UNCHANGED err
               ELSE /\ RaiseRaw("browser launch failed")
                    /\ started' = started \cup launched
                    /\ UNCHANGED <<state, seeded, last_check>>

\* The first check made and its answer ignored: the credentials are submitted
\* though the session is authenticated.
FirstCheck_ResultIgnored ==
    /\ lpc = "check1"
    /\ \E obs \in Observations :
          /\ ev' = ev \o CheckEvents(state, obs)
          /\ checks' = Append(checks, CheckLoggedIn(state, obs))
          /\ last_check' = IF CheckLoggedIn(state, obs) THEN "true" ELSE "false"
    /\ lpc' = "goto_login"
    /\ UNCHANGED <<arg, state, err, artifact, seeded, started>>

\* The cookie-based reuse path made to persist the session.
FirstCheck_SavesOnReuse ==
    /\ lpc = "check1"
    /\ \E obs \in Observations :
          LET r == CheckLoggedIn(state, obs) IN
          /\ ev' = ev \o CheckEvents(state, obs)
          /\ checks' = Append(checks, r)
          /\ last_check' = IF r THEN "true" ELSE "false"
          /\ IF r
             THEN /\ state' = [state EXCEPT !.logged_in = TRUE]
                  /\ lpc' = "save"
             ELSE /\ lpc' = "goto_login"
                  /\ UNCHANGED state
    /\ UNCHANGED <<arg, err, artifact, seeded, started>>

\* client.py:143-144
FirstCheck ==
    /\ lpc = "check1"
    /\ \E obs \in Observations :
          LET r == CheckLoggedIn(state, obs) IN
          /\ ev' = ev \o CheckEvents(state, obs)
          /\ checks' = Append(checks, r)
          /\ last_check' = IF r THEN "true" ELSE "false"
          /\ IF r
             THEN /\ state' = [state EXCEPT !.logged_in = TRUE]
                  /\ lpc' = "returned"
             ELSE /\ lpc' = "goto_login"
                  /\ UNCHANGED state
    /\ UNCHANGED <<arg, err, artifact, seeded, started>>

\* One awaited page interaction outside the try block: done, or raised.
RawStep(at, event, next) ==
    /\ lpc = at
    /\ ev' = Append(ev, event)
    /\ \E ok \in BOOLEAN :
          IF ok THEN lpc' = next /\ UNCHANGED err
          ELSE RaiseRaw(event \o " failed")
    /\ UNCHANGED <<arg, state, checks, artifact, seeded, started, last_check>>

\* One awaited page interaction inside the try block (client.py:153-184).
TriedStep(at, event, next) ==
    /\ lpc = at
    /\ ev' = Append(ev, event)
    /\ \E ok \in BOOLEAN :
          IF ok THEN lpc' = next /\ UNCHANGED err
          ELSE RaiseWrapped(event \o " failed")
    /\ UNCHANGED <<arg, state, checks, artifact, seeded, started, last_check>>

\* client.py:146-147
GotoLogin == RawStep("goto_login", "goto /login", "fill_email")

\* client.py:149
FillEmail == RawStep("fill_email", "fill email", "fill_password")

\* client.py:150
FillPassword == RawStep("fill_password", "fill password", "click")

\* client.py:151
ClickSubmit == RawStep("click", "click submit", "wait_left")

\* client.py:154-158
WaitLeftLogin == TriedStep("wait_left", "wait left /login", "count")

\* The wait for /channels/ entered whatever the URL and the count say.
CountCheckEmail_AlwaysWaits ==
    /\ lpc = "count"
    /\ \E outcome \in {"verify", "plain", "raise"} :
          CASE outcome = "verify" ->
                 /\ ev' = ev \o <<"count Check your email",
                                  "verification indicated">>
                 /\ lpc' = "wait_verified"
                 /\ UNCHANGED err
            [] outcome = "plain" ->
                 /\ ev' = Append(ev, "count Check your email")
                 /\ lpc' = "wait_verified"
                 /\ UNCHANGED err
            [] outcome = "raise" ->
                 /\ ev' = Append(ev, "count Check your email")
                 /\ RaiseWrapped("count failed")
    /\ UNCHANGED <<arg, state, checks, artifact, seeded, started, last_check>>

\* client.py:160-163: the URL holds /verify, or "Check your email" is shown
\* ("verification indicated" records that the condition of line 163 held).
CountCheckEmail ==
    /\ lpc = "count"
    /\ \E outcome \in {"verify", "plain", "raise"} :
          CASE outcome = "verify" ->
                 /\ ev' = ev \o <<"count Check your email",
                                  "verification indicated">>
                 /\ lpc' = "wait_verified"
                 /\ UNCHANGED err
            [] outcome = "plain" ->
                 /\ ev' = Append(ev, "count Check your email")
                 /\ lpc' = "check2"
                 /\ UNCHANGED err
            [] outcome = "raise" ->
                 /\ ev' = Append(ev, "count Check your email")
                 /\ RaiseWrapped("count failed")
    /\ UNCHANGED <<arg, state, checks, artifact, seeded, started, last_check>>

\* client.py:164-166
WaitVerified == TriedStep("wait_verified", "wait /channels/", "check2")

\* The post-login check made and its answer ignored.
SecondCheck_ResultIgnored ==
    /\ lpc = "check2"
    /\ \E obs \in Observations :
          LET r == CheckLoggedIn(state, obs) IN
          /\ ev' = ev \o CheckEvents(state, obs)
          /\ checks' = Append(checks, r)
          /\ last_check' = IF r THEN "true" ELSE "false"
    /\ state' = [state EXCEPT !.logged_in = TRUE]
    /\ lpc' = "settle"
    /\ UNCHANGED <<arg, err, artifact, seeded, started>>

\* The post-login check that, when it answers false, submits the credentials
\* again.
SecondCheck_Resubmits ==
    /\ lpc = "check2"
    /\ \E obs \in Observations :
          LET r == CheckLoggedIn(state, obs) IN
          /\ ev' = ev \o CheckEvents(state, obs)
          /\ checks' = Append(checks, r)
          /\ last_check' = IF r THEN "true" ELSE "false"
          /\ IF r
             THEN /\ state' = [state EXCEPT !.logged_in = TRUE]
                  /\ lpc' = "settle"
             ELSE /\ lpc' = "click"
                  /\ UNCHANGED state
    /\ UNCHANGED <<arg, err, artifact, seeded, started>>

\* client.py:168-171 and 180-181
SecondCheck ==
    /\ lpc = "check2"
    /\ \E obs \in Observations :
          LET r == CheckLoggedIn(state, obs) IN
          /\ ev' = ev \o CheckEvents(state, obs)
          /\ checks' = Append(checks, r)
          /\ last_check' = IF r THEN "true" ELSE "false"
          /\ IF r
             THEN /\ state' = [state EXCEPT !.logged_in = TRUE]
                  /\ lpc' = "settle"
                  /\ UNCHANGED err
             ELSE /\ RaiseWrapped(
                       "Login appeared to succeed but verification failed")
                  /\ UNCHANGED state
    /\ UNCHANGED <<arg, artifact, seeded, started>>

\* client.py:173-175
Settle ==
    /\ lpc = "settle"
    /\ IF state.page # NoHandle
       THEN /\ ev' = Append(ev, "goto /channels/@me")
            /\ \E ok \in BOOLEAN :
                  IF ok THEN lpc' = "save" /\ UNCHANGED err
                  ELSE RaiseWrapped("goto /channels/@me failed")
       ELSE /\ lpc' = "save"
            /\ UNCHANGED <<ev, err>>
    /\ UNCHANGED <<arg, state, checks, artifact, seeded, started, last_check>>

\* The storage state asked for and written nowhere.
SaveStorageState_NoWrite ==
    /\ lpc = "save"
    /\ IF state.page = NoHandle
       THEN UNCHANGED ev
       ELSE ev' = Append(ev, "storage_state")
    /\ lpc' = "returned"
    /\ UNCHANGED <<arg, state, checks, err, artifact, seeded, started, last_check>>

\* client.py:177-179 with _save_storage_state, client.py:85-89.
\* was_logged_in is the logged_in of the state before line 170: false,
\* since line 136 has returned every logged-in state.
SaveStorageState ==
    /\ lpc = "save"
    /\ IF state.page = NoHandle
       THEN /\ lpc' = "returned"
            /\ UNCHANGED <<ev, err, artifact>>
       ELSE /\ ev' = Append(ev, "storage_state")
            /\ \E ok \in BOOLEAN :
                  IF ok THEN /\ artifact' = TRUE
                             /\ lpc' = "returned"
                             /\ UNCHANGED err
                  ELSE /\ RaiseWrapped("storage_state failed")
                       /\ UNCHANGED artifact
    /\ UNCHANGED <<arg, state, checks, seeded, started, last_check>>

-----------------------------------------------------------------------------
(* The tool layer: the client the tools share *)

\* The two concurrent invocations.
Procs == {"a", "b"}

Free == "free"

\* The guilds get_guilds lists and the channels get_guild_channels lists.
Guilds == <<"g1", "g2">>

ChannelsOf(g) ==
    IF g = "g1" THEN <<[id |-> "c1", name |-> "general", guild |-> "g1"]>>
    ELSE <<[id |-> "c2", name |-> "feedback", guild |-> "g2"]>>

\* A message of a batch, by its timestamp against the cutoff of
\* read_recent_messages (messages.py:38).
Stamps == {"newer", "cutoff", "older"}

\* What get_channel_messages may return for a limit: at most that many.
BatchesUpTo(n) == UNION {[1..k -> Stamps] : k \in 0..n}

Absent == "-"

NoOp == [name |-> "-", target |-> "-", limit |-> 0]

Op(name, target, n) == [name |-> name, target |-> target, limit |-> n]

\* What a core operation may answer: its value, or an exception.
Answers(op) ==
    {[raised |-> TRUE, batch |-> <<>>]}
    \cup IF op.name = "get_channel_messages"
         THEN {[raised |-> FALSE, batch |-> b] : b \in BatchesUpTo(op.limit)}
         ELSE {[raised |-> FALSE, batch |-> <<>>]}

-----------------------------------------------------------------------------
(* The tool layer: arguments and responses *)

NoArgs ==
    [keywords |-> <<>>, pattern |-> Absent, guild_ids |-> <<>>,
     channel_id |-> Absent, channel_ids |-> <<>>, max_messages |-> 0,
     max_per_channel |-> 0, content |-> -1]

\* content is given by its length.
Invocations ==
    {[tool |-> "get_servers", arguments |-> NoArgs]}
    \cup {[tool |-> "discover_channels",
           arguments |-> [NoArgs EXCEPT !.keywords = <<"general">>,
                                        !.guild_ids = ids]] :
             ids \in {<<>>, <<"g2">>}}
    \cup {[tool |-> "search_channels",
           arguments |-> [NoArgs EXCEPT !.pattern = "feed"]]}
    \cup {[tool |-> "search_channels", arguments |-> NoArgs]}
    \cup {[tool |-> "get_announcement_channels", arguments |-> NoArgs]}
    \cup {[tool |-> "get_feedback_channels", arguments |-> NoArgs]}
    \cup {[tool |-> "read_messages",
           arguments |-> [NoArgs EXCEPT !.channel_id = "c1",
                                        !.max_messages = n]] :
             n \in {1, 2}}
    \cup {[tool |-> "read_channel_batch",
           arguments |-> [NoArgs EXCEPT !.channel_ids = cs,
                                        !.max_per_channel = 1]] :
             cs \in {<<"c1">>, <<"c2", "c1">>}}
    \cup {[tool |-> "send_message",
           arguments |-> [NoArgs EXCEPT !.channel_id = "c1",
                                        !.content = n]] :
             n \in {0, 1, 2000, 2001}}
    \cup {[tool |-> "get_channels", arguments |-> NoArgs]}

\* One TextContent: its text is JSON (an array, or an object with these
\* keys) or plain text.
TextContent(shape, keys, payload) ==
    [type |-> "text", shape |-> shape, keys |-> keys, error |-> "-",
     tool |-> "-", arguments |-> NoArgs, payload |-> payload]

\* error_result = {"error": str(e), "tool": name, "arguments": arguments}
ErrorContent(e, name, arguments) ==
    [type |-> "text", shape |-> "object",
     keys |-> {"error", "tool", "arguments"}, error |-> e,
     tool |-> name, arguments |-> arguments, payload |-> <<>>]

\* An invocation before its first step.
NewProc(inv) ==
    [tool |-> inv.tool, arguments |-> inv.arguments, pc |-> "new",
     op |-> NoOp, phase |-> "-", ids |-> <<>>, guilds |-> <<>>,
     found |-> <<>>, all_messages |-> <<>>, results |-> <<>>,
     began |-> FALSE, failed |-> FALSE, exc |-> "none", sent |-> FALSE,
     resp |-> <<>>]

\* return [TextContent(...)]
Respond(r, item) == [r EXCEPT !.pc = "done", !.op = NoOp, !.resp = <<item>>]

\* A handler that lets the exception leave call_tool.
Except_Reraises(r, e) ==
    [r EXCEPT !.pc = "raised", !.op = NoOp, !.exc = e]

\* except Exception as e
Except(r, e) ==
    Respond([r EXCEPT !.exc = e], ErrorContent(e, r.tool, r.arguments))

\* await discord_client.<name>(...)
Await(r, name, target, n) ==
    [r EXCEPT !.pc = "call", !.op = Op(name, target, n)]

-----------------------------------------------------------------------------
(* discovery.py *)

KeywordTools ==
    {"discover_channels", "get_announcement_channels", "get_feedback_channels"}

\* keyword.lower() in name_lower, and re.search(pattern, channel_name), for
\* the names, keywords and pattern of the model.
Contains(name, k) ==
    \/ name = "general" /\ k \in {"general", "gen"}
    \/ name = "feedback" /\ k \in {"feedback", "feed"}

KeywordsOf(r) ==
    CASE r.tool = "get_announcement_channels" ->
           <<"announcement", "announcements", "news", "updates", "general",
             "info", "information", "notice">>
      [] r.tool = "get_feedback_channels" ->
           <<"feedback", "suggestions", "bug", "bugs", "feature", "requests",
             "support", "help", "discuss", "discussion">>
      [] OTHER -> r.arguments.keywords

_matches_keywords(channel_name, keywords) ==
    \E i \in 1..Len(keywords) : Contains(channel_name, keywords[i])

_matches_pattern(channel_name, pattern) == Contains(channel_name, pattern)

Matches(r, c) ==
    IF r.tool = "search_channels"
    THEN _matches_pattern(c.name, r.arguments.pattern)
    ELSE _matches_keywords(c.name, KeywordsOf(r))

\* if guild_ids: guilds = [g for g in guilds if g.id in guild_ids]
FilterGuilds(gs, ids) ==
    IF ids = <<>> THEN gs
    ELSE SelectSeq(gs, LAMBDA g : \E i \in 1..Len(ids) : ids[i] = g)

MatchKeys ==
    {"channel_id", "channel_name", "guild_id", "guild_name", "match_reason"}

\* for guild in guilds: the next guild, or the matches returned and
\* serialised.
DiscoverNext(r) ==
    IF r.guilds = <<>>
    THEN Respond(r, TextContent("array", MatchKeys, r.found))
    ELSE Await(r, "get_guild_channels", Head(r.guilds), 0)

-----------------------------------------------------------------------------
(* messages.py *)

BatchCap == 100

MessageKeys ==
    {"id", "content", "author_name", "author_id", "timestamp", "attachments"}

MaxMessagesOf(r) ==
    IF r.phase = "read" THEN r.arguments.max_messages
    ELSE r.arguments.max_per_channel

ChannelOf(r) ==
    IF r.phase = "read" THEN r.arguments.channel_id ELSE Head(r.found).id

\* results[k] = v
DictPut(d, k, v) ==
    IF \E i \in 1..Len(d) : d[i].channel = k
    THEN [i \in 1..Len(d) |->
            IF d[i].channel = k THEN [channel |-> k, messages |-> v] ELSE d[i]]
    ELSE Append(d, [channel |-> k, messages |-> v])

RECURSIVE ReadNext(_), AggregateNext(_)

\* results[channel.id] = messages, and on to the next channel
AggregateStore(r, msgs) ==
    AggregateNext([r EXCEPT !.results = DictPut(@, Head(r.found).id, msgs),
                            !.found = Tail(@), !.all_messages = <<>>])

\* read_recent_messages returns: to call_tool, or to
\* aggregate_channel_messages.
ReadReturn(r) ==
    IF r.phase = "read"
    THEN Respond(r, TextContent("array", MessageKeys, r.all_messages))
    ELSE AggregateStore(r, r.all_messages)

\* while len(all_messages) < max_messages: the next batch
ReadNext(r) ==
    IF Len(r.all_messages) < MaxMessagesOf(r)
    THEN Await(r, "get_channel_messages", ChannelOf(r),
               Min(BatchCap, MaxMessagesOf(r) - Len(r.all_messages)))
    ELSE ReadReturn(r)

\* One batch received.
ReadBatch(r, batch) ==
    IF batch = <<>> THEN ReadReturn(r)
    ELSE LET kept == [r EXCEPT !.all_messages =
                         @ \o SelectSeq(batch, LAMBDA m : m = "newer")]
         IN  IF batch[Len(batch)] = "older" THEN ReadReturn(kept)
             ELSE ReadNext(kept)

\* for channel in channels: the next channel, or the results returned and
\* serialised.
AggregateNext(r) ==
    IF r.found = <<>>
    THEN Respond(r, TextContent("object",
                                {r.results[i].channel : i \in 1..Len(r.results)},
                                r.results))
    ELSE ReadNext(r)

-----------------------------------------------------------------------------
(* call_tool *)

\* for channel_id in channel_ids: the next id, or the aggregation
BatchNextId(r) ==
    IF r.ids = <<>>
    THEN AggregateNext([r EXCEPT !.phase = "aggregate"])
    ELSE Await([r EXCEPT !.phase = "find"], "get_guilds", "-", 0)

\* for guild in guilds: the next guild, or the next channel id
BatchNextGuild(r) ==
    IF r.guilds = <<>>
    THEN BatchNextId([r EXCEPT !.ids = Tail(@)])
    ELSE Await(r, "get_guild_channels", Head(r.guilds), 0)

\* call_tool up to its first await.
Dispatch(r) ==
    CASE r.tool = "get_servers" -> Await(r, "get_guilds", "-", 0)
      [] r.tool \in KeywordTools ->
           Await([r EXCEPT !.phase = "discover"], "get_guilds", "-", 0)
      [] r.tool = "search_channels" ->
           IF r.arguments.pattern = Absent THEN Except(r, "'pattern'")
           ELSE Await([r EXCEPT !.phase = "discover"], "get_guilds", "-", 0)
      [] r.tool = "read_messages" -> ReadNext([r EXCEPT !.phase = "read"])
      [] r.tool = "read_channel_batch" ->
           BatchNextId([r EXCEPT !.ids = r.arguments.channel_ids])
      [] r.tool = "send_message" ->
           Await(r, "send_message", r.arguments.channel_id, 0)
      [] OTHER ->
           Respond(r, TextContent("plain", {}, <<"Unknown tool: " \o r.tool>>))

\* After await client.get_guilds()
AfterGetGuilds(r, out) ==
    CASE r.phase = "discover" ->
           IF out.raised THEN Except(r, "get_guilds failed")
           ELSE DiscoverNext(
                  [r EXCEPT !.guilds = FilterGuilds(Guilds, r.arguments.guild_ids)])
      [] r.phase = "find" ->
           IF out.raised THEN BatchNextId([r EXCEPT !.ids = Tail(@)])
           ELSE BatchNextGuild([r EXCEPT !.guilds = Guilds])
      [] OTHER ->
           IF out.raised THEN Except(r, "get_guilds failed")
           ELSE Respond(r, TextContent("array", {"id", "name", "icon"}, Guilds))

\* After await client.get_guild_channels(guild.id)
AfterGetGuildChannels(r, out) ==
    LET channels == ChannelsOf(r.op.target) IN
    CASE r.phase = "discover" ->
           IF out.raised THEN DiscoverNext([r EXCEPT !.guilds = Tail(@)])
           ELSE DiscoverNext(
                  [r EXCEPT !.guilds = Tail(@),
                            !.found = @ \o SelectSeq(channels,
                                                     LAMBDA c : Matches(r, c))])
      [] OTHER ->
           IF out.raised THEN BatchNextId([r EXCEPT !.ids = Tail(@)])
           ELSE BatchNextGuild(
                  [r EXCEPT !.guilds = Tail(@),
                            !.found = @ \o SelectSeq(channels,
                                                     LAMBDA c : c.id = Head(r.ids))])

\* After await client.get_channel_messages(...)
AfterGetChannelMessages(r, out) ==
    CASE r.phase = "read" ->
           IF out.raised THEN Except(r, "get_channel_messages failed")
           ELSE ReadBatch(r, out.batch)
      [] OTHER ->
           IF out.raised THEN AggregateStore(r, <<>>)
           ELSE ReadBatch(r, out.batch)

\* After await discord_client.send_message(channel_id, content)
AfterSendMessage(r, out) ==
    IF out.raised THEN Except(r, "send_message failed")
    ELSE Respond(r, TextContent("object",
                                {"success", "message_id", "channel_id"},
                                <<"sent">>))

After(r, out) ==
    CASE r.op.name = "get_guilds" -> AfterGetGuilds(r, out)
      [] r.op.name = "get_guild_channels" -> AfterGetGuildChannels(r, out)
      [] r.op.name = "get_channel_messages" -> AfterGetChannelMessages(r, out)
      [] r.op.name = "send_message" -> AfterSendMessage(r, out)

InitTools ==
    /\ procs \in [Procs -> {NewProc(inv) : inv \in Invocations}]
    /\ gate = Free

ToolsIdle ==
    /\ procs = [p \in Procs |-> NewProc([tool |-> "-", arguments |-> NoArgs])]
    /\ gate = Free

\* call_tool(name, arguments) runs to its first await or to its return.
CallTool(p) ==
    /\ procs[p].pc = "new"
    /\ procs' = [procs EXCEPT ![p] = Dispatch(@)]
    /\ UNCHANGED gate

\* The client method takes the gate and the core operation starts.
ClientEnter(p) ==
    /\ procs[p].pc = "call"
    /\ gate = Free
    /\ gate' = p
    /\ procs' = [procs EXCEPT ![p] =
                   [@ EXCEPT !.pc = "run",
                             !.sent = @ \/ procs[p].op.name = "send_message"]]

\* The core operation returns or raises, the client method releases the
\* gate, and call_tool runs on to its next await or to its return.
ClientLeave(p) ==
    /\ procs[p].pc = "run"
    /\ gate = p
    /\ gate' = Free
    /\ \E out \in Answers(procs[p].op) :
          procs' = [procs EXCEPT ![p] =
                      After([@ EXCEPT !.began = TRUE,
                                      !.failed = @ \/ out.raised], out)]

-----------------------------------------------------------------------------
(* close_client, _ensure_browser and _check_logged_in on a given state *)

Handles == {"playwright", "browser", "page"}

\* The states a caller may hold: each handle null or not, logged in or not.
ClientStates ==
    {[CreateClientState EXCEPT !.playwright = IF "playwright" \in hs THEN "playwright" ELSE NoHandle,
                               !.browser = IF "browser" \in hs THEN "browser" ELSE NoHandle,
                               !.page = IF "page" \in hs THEN "page" ELSE NoHandle,
                               !.logged_in = li] :
        hs \in SUBSET Handles, li \in BOOLEAN}

\* A page on which every step of _check_logged_in succeeds.
AuthenticatedView ==
    [goto |-> TRUE, landmark |-> TRUE, url |-> {"/channels/@me"},
     queries |-> TRUE, guildsnav |-> TRUE, user_settings |-> TRUE,
     treeitem |-> TRUE]

NoReturn == [state |-> CreateClientState, value |-> FALSE]

\* failing: the handles whose close or stop raises, or the launch that
\* raises.
SessionCalls ==
    {[op |-> "close_client", state |-> st, failing |-> f, obs |-> AuthenticatedView] :
        st \in ClientStates, f \in SUBSET Handles}
    \cup {[op |-> "_ensure_browser", state |-> st, failing |-> f, obs |-> AuthenticatedView] :
            st \in ClientStates, f \in {{}, {"playwright"}}}
    \cup {[op |-> "_check_logged_in", state |-> st, failing |-> {}, obs |-> o] :
            st \in {CreateClientState, [CreateClientState EXCEPT !.page = "page"]},
            o \in Observations}

InitSession ==
    /\ scall \in SessionCalls
    /\ spc = "called"
    /\ attempts = <<>>
    /\ sret = NoReturn

SessionIdle ==
    /\ scall = [op |-> "-", state |-> CreateClientState, failing |-> {},
                obs |-> AuthenticatedView]
    /\ spc = "idle"
    /\ attempts = <<>>
    /\ sret = NoReturn

\* client.py:188-192: the browser is closed if there is one; what the close
\* raises is dropped.
CloseBrowser ==
    /\ scall.op = "close_client"
    /\ spc = "called"
    /\ attempts' = IF scall.state.browser # NoHandle
                   THEN Append(attempts, "browser.close")
                   ELSE attempts
    /\ spc' = "closed_browser"
    /\ UNCHANGED <<scall, sret>>

\* client.py:194-198: the process is stopped if there is one; what the stop
\* raises is dropped.
StopPlaywright ==
    /\ scall.op = "close_client"
    /\ spc = "closed_browser"
    /\ attempts' = IF scall.state.playwright # NoHandle
                   THEN Append(attempts, "playwright.stop")
                   ELSE attempts
    /\ spc' = "returned"
    /\ UNCHANGED <<scall, sret>>

\* A launch whatever the state holds.
EnsureBrowserResult_AlwaysLaunches(st, ok) ==
    IF ok
    THEN [raised |-> FALSE, launches |-> <<"launch">>,
          state |-> [st EXCEPT !.playwright = "playwright-2",
                               !.browser = "browser-2", !.page = "page-2"]]
    ELSE [raised |-> TRUE, launches |-> <<"launch">>, state |-> st]

\* client.py:63-82: the state returned, or the launch raised.
EnsureBrowserResult(st, ok) ==
    IF st.playwright # NoHandle
    THEN [raised |-> FALSE, launches |-> <<>>, state |-> st]
    ELSE IF ok
    THEN [raised |-> FALSE, launches |-> <<"launch">>,
          state |-> [st EXCEPT !.playwright = "playwright-2",
                               !.browser = "browser-2", !.page = "page-2"]]
    ELSE [raised |-> TRUE, launches |-> <<"launch">>, state |-> st]

EnsureBrowserCall ==
    /\ scall.op = "_ensure_browser"
    /\ spc = "called"
    /\ LET r == EnsureBrowserResult(scall.state, scall.failing = {}) IN
          /\ attempts' = r.launches
          /\ spc' = IF r.raised THEN "raised" ELSE "returned"
          /\ sret' = [state |-> r.state, value |-> FALSE]
    /\ UNCHANGED scall

\* client.py:92-132
CheckLoggedInCall ==
    /\ scall.op = "_check_logged_in"
    /\ spc = "called"
    /\ attempts' = CheckEvents(scall.state, scall.obs)
    /\ sret' = [state |-> scall.state,
                value |-> CheckLoggedIn(scall.state, scall.obs)]
    /\ spc' = "returned"
    /\ UNCHANGED scall

-----------------------------------------------------------------------------
(* get_guilds and get_guild_channels: what the page holds *)

GuildIds == {"g1", "g2"}

ChannelIds == {"c1", "c2"}

\* A page.url, by the guild and channel segments after /channels/; AtMe is
\* /channels/@me.  Ids are fixed-width digit strings, so a test for the
\* substring "/channels/<id>" is a test of the guild segment.
AtMe == [guild |-> "@me", channel |-> "None"]

GuildUrl(g, c) == [guild |-> g, channel |-> c]

\* A candidate of the guild list: its text, the guild its link leads to
\* ("None" without a link), and what a click on it does: it opens a guild,
\* leaves the page where it is, or raises.
GuildElements ==
    [text : {"Server A", "Server B", "Direct Messages"},
     link : GuildIds \cup {"None"},
     click : GuildIds \cup {"stay", "raise"}]

\* An anchor of the guild page: the guild and channel of its href, its text.
Anchors ==
    [guild : GuildIds, channel : ChannelIds, text : {"", "general"}]

\* landmark: whether the page ever shows a treeitem of the guild list.
NoPage ==
    [op |-> "-", guild_id |-> "g1", elements |-> <<>>, url |-> AtMe,
     title |-> "", anchors |-> <<>>, landmark |-> TRUE]

ExtractCalls ==
    {[NoPage EXCEPT !.op = "get_guilds", !.elements = es, !.landmark = l] :
        es \in UNION {[1..n -> GuildElements] : n \in 0..MaxElements},
        l \in BOOLEAN}
    \cup {[NoPage EXCEPT !.op = "get_guild_channels", !.url = u,
                         !.title = t, !.anchors = as] :
            u \in {AtMe, GuildUrl("g1", "None"), GuildUrl("g1", "c1"),
                   GuildUrl("g2", "c2")},
            t \in {"", "general"},
            as \in UNION {[1..n -> Anchors] : n \in 0..MaxAnchors}}

InitExtract ==
    /\ xcall \in ExtractCalls
    /\ xpc = "called"
    /\ xurl = AtMe
    /\ todo = <<>>
    /\ xout = <<>>
    /\ xerr = "none"

ExtractIdle ==
    /\ xcall = NoPage
    /\ xpc = "idle"
    /\ xurl = AtMe
    /\ todo = <<>>
    /\ xout = <<>>
    /\ xerr = "none"

\* The call raises.
XRaise(e) ==
    /\ xpc' = "raised"
    /\ xerr' = e

-----------------------------------------------------------------------------
(* get_guilds *)

ClickCap == 5

DiscordGuild(id, name) == [id |-> id, name |-> name, icon |-> "None"]

\* The texts both scans skip.
SkipText(text) == text = "Direct Messages"

\* client.py:235-279 and 290-293: the scan of the candidates in the page.
RECURSIVE ScanGuilds(_)
ScanGuilds(es) ==
    IF es = <<>> THEN <<>>
    ELSE LET e == Head(es) IN
         (IF ~SkipText(e.text) /\ e.link \in GuildIds
          THEN <<DiscordGuild(e.link, e.text)>>
          ELSE <<>>) \o ScanGuilds(Tail(es))

\* client.py:202-232: the landing view is opened; what the waits raise is
\* dropped.
GuildsGoto ==
    /\ xcall.op = "get_guilds"
    /\ xpc = "called"
    /\ \E ok \in BOOLEAN :
          IF ok THEN xpc' = "evaluate" /\ UNCHANGED xerr
          ELSE XRaise("goto failed")
    /\ UNCHANGED <<xcall, xurl, todo, xout>>

\* client.py:235-296
EvaluateGuilds ==
    /\ xcall.op = "get_guilds"
    /\ xpc = "evaluate"
    /\ LET guilds == ScanGuilds(xcall.elements)
           guild_elements == IF Len(guilds) = 0
                             THEN PyPrefix(xcall.elements, ClickCap)
                             ELSE <<>>
       IN  /\ xout' = guilds
           /\ todo' = guild_elements
           /\ xpc' = IF Len(guilds) = 0 /\ Len(guild_elements) > 0
                     THEN "click" ELSE "return"
    /\ UNCHANGED <<xcall, xurl, xerr>>

\* client.py:297-333: one element of the click-through loop
ClickElement ==
    /\ xcall.op = "get_guilds"
    /\ xpc = "click"
    /\ LET e == Head(todo)
           clicked == ~SkipText(e.text) /\ e.click # "raise"
           url == IF clicked /\ e.click \in GuildIds
                  THEN GuildUrl(e.click, "None") ELSE xurl
       IN  /\ xurl' = url
           /\ xout' = IF clicked /\ url.guild # "@me"
                      THEN Append(xout, DiscordGuild(url.guild, e.text))
                      ELSE xout
    /\ todo' = Tail(todo)
    /\ xpc' = IF Tail(todo) = <<>> THEN "return" ELSE "click"
    /\ UNCHANGED <<xcall, xerr>>

\* The list returned from wherever the click-through left the page.
GuildsReturn_NoNavigation ==
    /\ xcall.op = "get_guilds"
    /\ xpc = "return"
    /\ \E ok \in BOOLEAN, shown \in BOOLEAN :
          /\ shown => xcall.landmark
          /\ IF ~ok THEN XRaise("goto failed") /\ UNCHANGED xurl
             ELSE IF ~shown
             THEN XRaise("Timeout 10000ms exceeded") /\ UNCHANGED xurl
             ELSE xpc' = "returned" /\ UNCHANGED <<xurl, xerr>>
    /\ UNCHANGED <<xcall, todo, xout>>

\* client.py:335-342: the landing view is opened, then the wait for a visible
\* treeitem of the guild list, which nothing catches
GuildsReturn ==
    /\ xcall.op = "get_guilds"
    /\ xpc = "return"
    /\ \E ok \in BOOLEAN, shown \in BOOLEAN :
          /\ shown => xcall.landmark
          /\ IF ~ok THEN XRaise("goto failed") /\ UNCHANGED xurl
             ELSE /\ xurl' = AtMe
                  /\ IF ~shown THEN XRaise("Timeout 10000ms exceeded")
                     ELSE xpc' = "returned" /\ UNCHANGED xerr
    /\ UNCHANGED <<xcall, todo, xout>>

-----------------------------------------------------------------------------
(* get_guild_channels *)

DiscordChannel(id, name, guild_id) ==
    [id |-> id, name |-> name, type |-> 0, guild_id |-> guild_id]

\* Any URL passes.
UrlInGuild_Any(url, guild_id) == TRUE

\* client.py:360: f"/channels/{guild_id}" in current_url
UrlInGuild(url, guild_id) == url.guild = guild_id

\* client.py:369-380: the channel the navigation landed in
CurrentChannel(url, title, guild_id) ==
    IF url.guild = guild_id /\ url.channel # "None"
    THEN <<DiscordChannel(url.channel,
                          IF title # "" THEN title ELSE "unknown-channel",
                          guild_id)>>
    ELSE <<>>

\* client.py:383-410: the scan of the anchors
RECURSIVE ScanAnchors(_, _, _)
ScanAnchors(as, seenIds, guild_id) ==
    IF as = <<>> THEN <<>>
    ELSE LET a == Head(as) IN
         IF a.guild = guild_id /\ a.channel \notin seenIds
         THEN (IF a.text # ""
               THEN <<DiscordChannel(a.channel, a.text, guild_id)>>
               ELSE <<>>)
              \o ScanAnchors(Tail(as), seenIds \cup {a.channel}, guild_id)
         ELSE ScanAnchors(Tail(as), seenIds, guild_id)

\* client.py:348-354
ChannelsGoto ==
    /\ xcall.op = "get_guild_channels"
    /\ xpc = "called"
    /\ \E ok \in BOOLEAN :
          IF ok THEN xpc' = "wait" /\ xurl' = xcall.url /\ UNCHANGED xerr
          ELSE XRaise("goto failed") /\ UNCHANGED xurl
    /\ UNCHANGED <<xcall, todo, xout>>

\* client.py:355-357: an anchor into the guild shows within the bound, or
\* the wait times out.
WaitForChannelLink ==
    /\ xcall.op = "get_guild_channels"
    /\ xpc = "wait"
    /\ \E shown \in BOOLEAN :
          IF shown /\ \E i \in 1..Len(xcall.anchors) :
                          xcall.anchors[i].guild = xcall.guild_id
          THEN xpc' = "extract" /\ UNCHANGED xerr
          ELSE XRaise("Timeout 15000ms exceeded")
    /\ UNCHANGED <<xcall, xurl, todo, xout>>

\* client.py:359-429
ExtractChannels ==
    /\ xcall.op = "get_guild_channels"
    /\ xpc = "extract"
    /\ IF ~UrlInGuild(xurl, xcall.guild_id)
       THEN XRaise("Could not navigate to guild") /\ UNCHANGED xout
       ELSE /\ xout' = CurrentChannel(xurl, xcall.title, xcall.guild_id)
                       \o ScanAnchors(xcall.anchors, {}, xcall.guild_id)
            /\ xpc' = "returned"
            /\ UNCHANGED xerr
    /\ UNCHANGED <<xcall, xurl, todo>>

-----------------------------------------------------------------------------
(* The four operations of client.py, step by step *)

Operations ==
    {"get_guilds", "get_guild_channels", "get_channel_messages",
     "send_message"}

NoCall == [op |-> "-", content |-> ""]

NoRef == "None"

\* A state _login has returned: every handle set, logged_in true.
LoggedInState ==
    [CreateClientState EXCEPT !.playwright = "playwright",
                              !.browser = "browser",
                              !.page = "page",
                              !.logged_in = TRUE]

\* The view each operation opens first: client.py:206, 352, 450, 615.
FirstView(op) ==
    CASE op = "get_guilds" -> "goto /channels/@me"
      [] op = "get_guild_channels" -> "goto /channels/guild"
      [] OTHER -> "goto /channels/guild/channel"

\* The landmark each operation waits for: client.py:212, 355, 455, 620.
Landmark(op) ==
    CASE op = "get_guilds" -> "wait guildsnav"
      [] op = "get_guild_channels" -> "wait channel link"
      [] op = "get_channel_messages" -> "wait chat-messages"
      [] OTHER -> "wait composer"

InitOps ==
    /\ ocall = NoCall
    /\ opc = "idle"
    /\ oheld = CreateClientState
    /\ oclosed = FALSE
    /\ ostate = CreateClientState
    /\ oev = <<>>
    /\ oret = NoRef
    /\ oerr = "none"

OpsIdle == InitOps

\* The operation raises: the caller keeps the state it passed.
ORaise(e) ==
    /\ opc' = "raised"
    /\ oerr' = e
    /\ UNCHANGED <<oheld, oclosed, oret>>

\* The caller calls an operation on the state it holds, or on a new
\* create_client_state().
OpCall ==
    /\ opc \in {"idle", "returned", "raised"}
    /\ \E op \in Operations, content \in {"", "hi"},
          st \in {oheld, CreateClientState} :
          /\ op # "send_message" => content = ""
          /\ ocall' = [op |-> op, content |-> content]
          /\ oheld' = st
          /\ ostate' = st
          /\ oclosed' = (oclosed /\ st = oheld)
    /\ opc' = "login"
    /\ oev' = <<>>
    /\ oret' = NoRef
    /\ oerr' = "none"

\* client.py:187-198: close_client closes the browser and stops the process
\* of the state it is given and returns nothing; the caller holds the state
\* as it was.
CloseClient ==
    /\ opc \in {"idle", "returned", "raised"}
    /\ ocall' = [op |-> "close_client", content |-> ""]
    /\ oclosed' = (oclosed \/ oheld.browser # NoHandle)
    /\ opc' = "returned"
    /\ ostate' = oheld
    /\ oev' = <<>>
    /\ oret' = NoRef
    /\ oerr' = "none"
    /\ UNCHANGED oheld

\* The operation goes on after a _login that raised.
OpLogin_FailureIgnored ==
    /\ opc = "login"
    /\ IF ostate.logged_in
       THEN /\ oev' = <<"_login">>
            /\ opc' = "goto"
            /\ UNCHANGED <<ostate, oerr>>
       ELSE \E ok \in BOOLEAN :
               IF ok
               THEN /\ oev' = <<"_login">>
                    /\ ostate' = LoggedInState
                    /\ opc' = "goto"
                    /\ UNCHANGED oerr
               ELSE /\ oev' = <<"_login: raised">>
                    /\ opc' = "goto"
                    /\ UNCHANGED <<ostate, oerr>>
    /\ UNCHANGED <<ocall, oheld, oclosed, oret>>

\* client.py:202-204, 348-350, 443-446, 608-611: state = await _login(state),
\* which returns the state as it is when it is logged in and otherwise
\* returns a logged-in state or raises (client.py:135-184); then the test of
\* the page.
OpLogin ==
    /\ opc = "login"
    /\ IF ostate.logged_in
       THEN /\ oev' = <<"_login">>
            /\ IF ostate.page = NoHandle
               THEN /\ ORaise("Browser page not initialized")
                    /\ UNCHANGED ostate
               ELSE /\ opc' = "goto"
                    /\ UNCHANGED <<ostate, oerr, oheld, oclosed, oret>>
       ELSE \E ok \in BOOLEAN :
               IF ok
               THEN /\ oev' = <<"_login">>
                    /\ ostate' = LoggedInState
                    /\ opc' = "goto"
                    /\ UNCHANGED <<oerr, oheld, oclosed, oret>>
               ELSE /\ oev' = <<"_login: raised">>
                    /\ ORaise("Failed to login to Discord")
                    /\ UNCHANGED ostate
    /\ UNCHANGED ocall

\* client.py:206-208, 352-354, 450-453, 615-618; a goto on a page whose
\* browser has been closed raises
OpGoto ==
    /\ opc = "goto"
    /\ oev' = Append(oev, FirstView(ocall.op))
    /\ IF oclosed
       THEN ORaise("Target page, context or browser has been closed")
       ELSE \E ok \in BOOLEAN :
               IF ok
               THEN opc' = "wait" /\ UNCHANGED <<oerr, oheld, oclosed, oret>>
               ELSE ORaise("goto failed")
    /\ UNCHANGED <<ocall, ostate>>

\* client.py:211-232 (what the wait raises is dropped), 355-361, 455, 620
OpWait ==
    /\ opc = "wait"
    /\ \E ok \in BOOLEAN :
          IF ok \/ ocall.op = "get_guilds"
          THEN /\ oev' = Append(oev, IF ok THEN Landmark(ocall.op)
                                     ELSE Landmark(ocall.op) \o ": timeout")
               /\ opc' = IF ocall.op = "send_message" THEN "query"
                         ELSE "extract"
               /\ UNCHANGED <<oerr, oheld, oclosed, oret>>
          ELSE /\ oev' = Append(oev, Landmark(ocall.op) \o ": timeout")
               /\ ORaise("Timeout")
    /\ UNCHANGED <<ocall, ostate>>

\* client.py:235-342, 363-429, 459-601: the extraction and the return of the
\* state with the list, or the raise of one of its steps
OpExtract ==
    /\ opc = "extract"
    /\ oev' = Append(oev, "extract")
    /\ \E ok \in BOOLEAN :
          IF ok THEN /\ opc' = "returned"
                     /\ oheld' = ostate
                     /\ UNCHANGED <<oerr, oclosed, oret>>
          ELSE ORaise("extract failed")
    /\ UNCHANGED <<ocall, ostate>>

\* The composer filled whether or not the query found it.
SendQueryComposer_Unchecked ==
    /\ opc = "query"
    /\ \E found \in BOOLEAN :
          /\ oev' = Append(oev, IF found THEN "query composer"
                                ELSE "query composer: none")
          /\ opc' = "fill"
          /\ UNCHANGED <<oerr, oheld, oclosed, oret>>
    /\ UNCHANGED <<ocall, ostate>>

\* client.py:623-626
SendQueryComposer ==
    /\ opc = "query"
    /\ \E found \in BOOLEAN :
          IF found
          THEN /\ oev' = Append(oev, "query composer")
               /\ opc' = "fill"
               /\ UNCHANGED <<oerr, oheld, oclosed, oret>>
          ELSE /\ oev' = Append(oev, "query composer: none")
               /\ ORaise("Could not find message input")
    /\ UNCHANGED <<ocall, ostate>>

\* client.py:629
SendFill ==
    /\ opc = "fill"
    /\ oev' = Append(oev, "fill composer")
    /\ \E ok \in BOOLEAN :
          IF ok THEN opc' = "enter" /\ UNCHANGED <<oerr, oheld, oclosed, oret>>
          ELSE ORaise("fill failed")
    /\ UNCHANGED <<ocall, ostate>>

\* The keystroke pressed again when it raised.
SendPressEnter_Retries ==
    /\ opc = "enter"
    /\ oev' = Append(oev, "press Enter")
    /\ \E ok \in BOOLEAN :
          /\ opc' = IF ok THEN "sent" ELSE "enter"
          /\ UNCHANGED <<oerr, oheld, oclosed, oret>>
    /\ UNCHANGED <<ocall, ostate>>

\* client.py:631
SendPressEnter ==
    /\ opc = "enter"
    /\ oev' = Append(oev, "press Enter")
    /\ \E ok \in BOOLEAN :
          IF ok THEN opc' = "sent" /\ UNCHANGED <<oerr, oheld, oclosed, oret>>
          ELSE ORaise("press failed")
    /\ UNCHANGED <<ocall, ostate>>

\* client.py:634-638: the reference is made from the clock
SendReturn ==
    /\ opc = "sent"
    /\ \E now \in {"1", "2"} : oret' = "sent-" \o now
    /\ opc' = "returned"
    /\ oheld' = ostate
    /\ UNCHANGED <<ocall, oclosed, ostate, oev, oerr>>

-----------------------------------------------------------------------------
(* read_recent_messages over the core get_channel_messages *)

\* A channel view whose elements all carry an id, a timestamp and a text.
ReadDoms ==
    {d \in Doms : \A i \in 1..Len(d) : d[i].id # 0 /\ d[i].body = "text"}

\* client.py:491-601 on a view that renders the same elements after every
\* scroll: the rounds of the while loop, then messages[:limit].  The before
\* argument (client.py:437) is read nowhere in the function.
RECURSIVE GetChannelMessages(_, _, _, _)
GetChannelMessages(d, msgs, coll, lim) ==
    IF coll < lim
    THEN LET r == ForElements(PySuffix(d, Min(SliceCap, lim - coll)),
                              msgs, coll, lim)
         IN  IF r.collected < lim /\ Len(d) > 0
             THEN GetChannelMessages(d, r.messages, r.collected, lim)
             ELSE PyPrefix(r.messages, lim)
    ELSE PyPrefix(msgs, lim)

\* messages.py:18-19: [m for m in filtered if m.timestamp > after]
_filter_messages_by_time(msgs, after_time) ==
    SelectSeq(msgs, LAMBDA m : m.ts > after_time)

\* sorted(..., key=lambda m: m.timestamp, reverse=True) is stable: one
\* message set into a list that is already sorted.
RECURSIVE SortedInsert(_, _)
SortedInsert(sorted, m) ==
    IF sorted = <<>> THEN <<m>>
    ELSE IF Head(sorted).ts >= m.ts
    THEN <<Head(sorted)>> \o SortedInsert(Tail(sorted), m)
    ELSE <<m>> \o sorted

\* messages.py:61
RECURSIVE SortedNewestFirst(_)
SortedNewestFirst(msgs) ==
    IF msgs = <<>> THEN <<>>
    ELSE SortedInsert(SortedNewestFirst(SubSeq(msgs, 1, Len(msgs) - 1)),
                      msgs[Len(msgs)])

\* messages.py:38-40
InitRead ==
    /\ rmax \in 0..MaxRead
    /\ rcutoff \in 0..(MaxId + 1)
    /\ rpc = "loop"
    /\ rdom = <<>>
    /\ rall = <<>>
    /\ rlast = None
    /\ rbefore = None
    /\ rbatch = <<>>
    /\ rresult = <<>>

ReadIdle ==
    /\ rmax = 0
    /\ rcutoff = 0
    /\ rpc = "idle"
    /\ rdom = <<>>
    /\ rall = <<>>
    /\ rlast = None
    /\ rbefore = None
    /\ rbatch = <<>>
    /\ rresult = <<>>

\* messages.py:61
ReadReturnSorted(all) ==
    /\ rpc' = "done"
    /\ rresult' = SortedNewestFirst(all)

\* messages.py:42-59: one iteration of the while loop, with the core call it
\* awaits; the channel renders what it renders at that time.
ReadRecentMessagesRound ==
    /\ rpc = "loop"
    /\ Len(rall) < rmax
    /\ \E d \in ReadDoms :
          LET batch_size == Min(BatchCap, rmax - Len(rall))
              msgs == GetChannelMessages(d, <<>>, 0, batch_size)
              all == rall \o _filter_messages_by_time(msgs, rcutoff)
          IN  /\ rdom' = d
              /\ rbefore' = rlast
              /\ rbatch' = msgs
              /\ IF msgs = <<>>
                 THEN /\ ReadReturnSorted(rall)
                      /\ UNCHANGED <<rall, rlast>>
                 ELSE /\ rall' = all
                      /\ IF msgs[Len(msgs)].ts < rcutoff
                         THEN ReadReturnSorted(all) /\ UNCHANGED rlast
                         ELSE /\ rlast' = msgs[Len(msgs)].id
                              /\ UNCHANGED <<rpc, rresult>>
    /\ UNCHANGED <<rmax, rcutoff>>

\* messages.py:42 and 61: the while test fails
ReadRecentMessagesExit ==
    /\ rpc = "loop"
    /\ Len(rall) >= rmax
    /\ ReadReturnSorted(rall)
    /\ UNCHANGED <<rmax, rcutoff, rdom, rall, rlast, rbefore, rbatch>>

-----------------------------------------------------------------------------
(* Properties of read_recent_messages *)

\* C38: read_recent_messages returns.
C38_ReadTerminates == <>(rpc = "done")

\* C39: every batch after the first holds only messages older than the
\* before it was asked with, and the returned list has no two messages with
\* the same id, at most max_messages entries, and only messages later than
\* the cutoff.
C39_PaginationProgress ==
    /\ rbefore # None => \A i \in 1..Len(rbatch) : rbatch[i].id < rbefore
    /\ rpc = "done"
          => /\ \A i, j \in 1..Len(rresult) :
                    rresult[i].id = rresult[j].id => i = j
             /\ Len(rresult) <= Max(rmax, 0)
             /\ \A i \in 1..Len(rresult) : rresult[i].ts > rcutoff

-----------------------------------------------------------------------------
(* Properties of the operations *)

\* The operation made this step.
HasStep(e) == \E i \in 1..Len(oev) : oev[i] = e

\* C21: when the wait for the composer times out or the query finds no
\* composer, send_message raises, has neither filled the composer nor pressed
\* Enter, and returns no message reference.
C21_NoComposerNoSend ==
    (ocall.op = "send_message"
        /\ (HasStep("wait composer: timeout") \/ HasStep("query composer: none")))
        => /\ opc = "raised"
           /\ ~HasStep("fill composer")
           /\ ~HasStep("press Enter")
           /\ oret = NoRef

\* A send_message has raised because the query found no composer.
C21_Witness ==
    /\ ocall = [op |-> "send_message", content |-> "hi"]
    /\ opc = "raised"
    /\ oerr = "Could not find message input"
    /\ oev = <<"_login", "goto /channels/guild/channel", "wait composer",
               "query composer: none">>

\* C27: every step of an operation after its first comes after a _login that
\* returned, with a logged-in state; an operation whose _login raised has
\* made no other step.
C27_LoginBeforeEverythingElse ==
    /\ \A i \in 1..Len(oev) :
          oev[i] \notin {"_login", "_login: raised"}
              => (i > 1 /\ oev[1] = "_login" /\ ostate.logged_in)
    /\ HasStep("_login: raised")
          => (oev = <<"_login: raised">> /\ opc = "raised" /\ oret = NoRef)

\* A send_message given a logged-out state has logged in and then filled the
\* composer.
C27_Witness ==
    /\ ocall.op = "send_message"
    /\ ~oheld.logged_in
    /\ ostate.logged_in
    /\ oev[1] = "_login"
    /\ HasStep("fill composer")

\* How many times the operation made this step.
StepCount(e) == Cardinality({i \in 1..Len(oev) : oev[i] = e})

\* C36: an operation called on a state that close_client has closed makes no
\* step on the closed page.
C36_NoUseAfterClose ==
    (oclosed /\ ocall.op \in Operations) => Len(oev) <= 1

\* C37: send_message fills the composer and presses Enter at most once, and
\* exactly once each when it returns a message reference.
C37_SentAtMostOnce ==
    ocall.op = "send_message"
        => /\ StepCount("fill composer") <= 1
           /\ StepCount("press Enter") <= 1
           /\ oret # NoRef
                => /\ StepCount("fill composer") = 1
                   /\ StepCount("press Enter") = 1
                   /\ opc = "returned"

\* A send_message has returned a reference.
C37_Witness ==
    /\ ocall = [op |-> "send_message", content |-> "hi"]
    /\ opc = "returned"
    /\ oret = "sent-1"
    /\ oev = <<"_login", "goto /channels/guild/channel", "wait composer",
               "query composer", "fill composer", "press Enter">>

-----------------------------------------------------------------------------
(* Properties of get_guilds and get_guild_channels *)

DistinctById(list) ==
    \A i \in 1..Len(list) : \A j \in 1..Len(list) :
        list[i].id = list[j].id => i = j

C19_GuildsDistinctById ==
    (xcall.op = "get_guilds" /\ xpc = "returned") => DistinctById(xout)

\* No anchor into the guild is on the page, or the page is outside the
\* guild.
Unreachable ==
    \/ \A i \in 1..Len(xcall.anchors) : xcall.anchors[i].guild # xcall.guild_id
    \/ xcall.url.guild # xcall.guild_id

C22_GuildsEndOnLandingView ==
    (xcall.op = "get_guilds" /\ xpc = "returned") => xurl = AtMe

\* A call has returned a guild found by clicking through to it.
C22_Witness ==
    /\ xcall.op = "get_guilds"
    /\ xpc = "returned"
    /\ ScanGuilds(xcall.elements) = <<>>
    /\ \E i \in 1..Len(xout) : xout[i].id = "g1"
    /\ xurl = AtMe

\* C31: a get_guilds call on a page that never shows the guild list
\* landmark does not raise for it: once past its navigations it returns.
C31_ToleratesMissingLandmark ==
    (xcall.op = "get_guilds" /\ ~xcall.landmark)
        => xerr # "Timeout 10000ms exceeded"

\* C32: the click-through runs only after a scan that found no guild, over
\* at most ClickCap candidates, and each click is made from the landing view.
C32_ClickThroughFromLandingView ==
    (xcall.op = "get_guilds" /\ xpc = "click")
        => /\ ScanGuilds(xcall.elements) = <<>>
           /\ Len(todo) <= ClickCap
           /\ xurl = AtMe

\* C33: get_guild_channels returns a channel for every anchor into the
\* requested guild, named channel-<id> when the anchor has no text, and
\* every returned channel carries the requested guild id.
C33_OneChannelPerAnchor ==
    (xcall.op = "get_guild_channels" /\ xpc = "returned")
        => /\ \A i \in 1..Len(xcall.anchors) :
                 xcall.anchors[i].guild = xcall.guild_id
                     => \E j \in 1..Len(xout) :
                           xout[j].id = xcall.anchors[i].channel
           /\ \A j \in 1..Len(xout) : xout[j].guild_id = xcall.guild_id

-----------------------------------------------------------------------------
(* Properties of get_channel_messages *)

Returned == pc = "done"

Ids(s) == {s[i].id : i \in 1..Len(s)}

DistinctIds(s) == \A i, j \in 1..Len(s) : i # j => s[i].id # s[j].id

NewestFirst(s) == \A i, j \in 1..Len(s) : i < j => s[i].ts >= s[j].ts

\* C1: the list get_channel_messages returns never holds two messages with
\* the same id, whatever the limit, the number of rounds and the rendered DOM.
C1_NoDuplicateIds == Returned => DistinctIds(result)

\* C2 (as stated): for every limit N, N <= 0 included, the returned list has
\* length at most N.
C2_LengthAtMostLimit == Returned => Len(result) <= limit

\* C2 (amended): the returned list has length at most max(N, 0): at most N
\* for N >= 0, and empty for N < 0.
C2_LengthAtMostLimitOrZero == Returned => Len(result) <= Max(limit, 0)

\* C2 witness: a call whose limit is smaller than the number of rendered
\* elements has returned a full list.
C2_Witness ==
    /\ Returned
    /\ limit >= 1
    /\ Len(dom) > limit
    /\ Len(result) = limit

\* C3: the returned list is sorted by timestamp, newest first, whatever the
\* order of the elements in the DOM and of the rounds.
C3_SortedNewestFirst == Returned => NewestFirst(result)

\* C4: with both before and after set, every returned message m has
\* after < m.id < before.
C4_StrictlyBetween ==
    (Returned /\ before # None /\ after # None)
        => \A i \in 1..Len(result) : after < result[i].id /\ result[i].id < before

\* The channel renders, in every round, the same k well-formed elements with
\* k distinct ids, k < limit, none excluded by before/after.
RendersFewerThanLimit ==
    /\ stable
    /\ Len(dom) < limit
    /\ \A i \in 1..Len(dom) : dom[i].body = "text" /\ dom[i].id # 0
    /\ DistinctIds(dom)
    /\ \A i \in 1..Len(dom) :
          /\ before = None \/ dom[i].id < before
          /\ after = None \/ dom[i].id > after

\* C5: when the channel renders k distinct message elements, k < limit, none
\* excluded by before/after, exactly k messages are returned, one per
\* element, newest first; the list is not padded with elements collected
\* before.
C5_ExactlyTheRendered ==
    (Returned /\ RendersFewerThanLimit)
        => /\ Len(result) = Len(dom)
           /\ Ids(result) = Ids(dom)
           /\ NewestFirst(result)

\* C28: the collection loop terminates.
C28_LoopTerminates == <>(pc = "done")

\* The slice of the current round, and the same without the elements whose
\* extraction raises.
RoundSlice == PySuffix(dom, Min(SliceCap, limit - collected))

WellFormed(elems) == SelectSeq(elems, LAMBDA e : e.body # "raise")

\* C29: an element whose extraction raises contributes no message and the
\* other elements of the round are processed as if it were not there.
C29_MalformedElementSkipped ==
    (pc = "loop" /\ collected < limit)
        => ForElements(RoundSlice, messages, collected, limit)
             = ForElements(WellFormed(RoundSlice), messages, collected, limit)

\* A round has collected the message of the element rendered after one
\* whose extraction raises.
C29_Witness ==
    /\ pc = "loop"
    /\ stable
    /\ collected = 1
    /\ limit = 3
    /\ Len(dom) = 2
    /\ dom[1].body = "raise"
    /\ dom[2] = [id |-> 1, ts |-> 1, body |-> "text"]
    /\ messages = <<DiscordMessage(dom[2], 0)>>

\* C30: no returned message has both empty content and no attachment.
C30_NoEmptyMessage ==
    pc = "done"
        => \A i \in 1..Len(result) :
              result[i].content # "" \/ result[i].attachments # <<>>

-----------------------------------------------------------------------------
(* Properties of _login *)

\* The interactions with the login view.
CredentialEvents == {"goto /login", "fill email", "fill password", "click submit"}

SubmitsCredentials == \E i \in 1..Len(ev) : ev[i] \in CredentialEvents

\* C10: when _login is called on a state with logged_in = false and the first
\* _check_logged_in returns true, _login returns a state with logged_in = true
\* and has neither navigated to the login view nor filled or submitted the
\* credential fields.
C10_CookieReuseSkipsCredentials ==
    (~arg.logged_in /\ Len(checks) >= 1 /\ checks[1])
        => /\ lpc = "returned"
           /\ state.logged_in
           /\ ~SubmitsCredentials

\* C10 witness: a call on a logged-out state has returned after one check
\* that answered true.
C10_Witness ==
    /\ lpc = "returned"
    /\ ~arg.logged_in
    /\ checks = <<TRUE>>
    /\ state.logged_in
    /\ ev = <<"goto /channels/@me", "wait guildsnav">>

\* The call made this interaction.
HasEvent(e) == \E i \in 1..Len(ev) : ev[i] = e

\* C11: the session artifact is written only on the path where the
\* credentials were submitted and the post-login check succeeded: a call that
\* has asked for the storage state was given a logged-out state, has clicked
\* submit, and its two checks answered false, then true.
C11_ArtifactOnlyAfterFreshLogin ==
    HasEvent("storage_state")
        => /\ ~arg.logged_in
           /\ HasEvent("click submit")
           /\ checks = <<FALSE, TRUE>>

C11_Witness ==
    /\ lpc = "returned"
    /\ HasEvent("storage_state")
    /\ HasEvent("click submit")
    /\ artifact

\* The call launched its browser itself.
LaunchedHere == arg.playwright = NoHandle /\ state.playwright # NoHandle

WroteArtifactBeforeReturn ==
    (lpc = "returned" /\ SubmitsCredentials) => artifact

SeedsFromArtifact ==
    (LaunchedHere /\ ~HasEvent("storage_state")) => (seeded = artifact)

\* C12 as stated: a login through credential submission has written the
\* artifact before it returns, a launch that finds the artifact seeds the
\* context with it, and a _login that launched a seeded context ends logged
\* in without submitting credentials.
C12_RoundTrip ==
    /\ WroteArtifactBeforeReturn
    /\ SeedsFromArtifact
    /\ (LaunchedHere /\ seeded /\ lpc \in {"returned", "raised"})
          => (lpc = "returned" /\ state.logged_in /\ ~SubmitsCredentials)

\* C12 amended: the same, the last part only when the first
\* _check_logged_in on the seeded context answers true.
C12_RoundTripWhenCheckPasses ==
    /\ WroteArtifactBeforeReturn
    /\ SeedsFromArtifact
    /\ (LaunchedHere /\ seeded /\ lpc \in {"returned", "raised"}
            /\ Len(checks) >= 1 /\ checks[1])
          => (lpc = "returned" /\ state.logged_in /\ ~SubmitsCredentials)

C12_Witness ==
    /\ lpc = "returned"
    /\ LaunchedHere
    /\ seeded
    /\ artifact
    /\ checks = <<TRUE>>
    /\ state.logged_in
    /\ ~SubmitsCredentials

\* C15: a returned state with logged_in = true has a page, and the last
\* _check_logged_in on that page returned true.
C15_LoggedInHasAuthenticatedPage ==
    (lpc = "returned" /\ state.logged_in)
        => (state.page # NoHandle /\ last_check = "true")

\* A second call returned the logged-in state it was given.
C15_Witness ==
    /\ lpc = "returned"
    /\ arg.logged_in
    /\ state = arg
    /\ state.page # NoHandle
    /\ ev = <<>>
    /\ last_check = "true"

LoginErrorPrefix == "Failed to login to Discord: "

\* What the steps after the decision to submit credentials fail with.
LoginCauses ==
    {"goto /login failed", "fill email failed", "fill password failed",
     "click submit failed", "wait left /login failed", "count failed",
     "wait /channels/ failed",
     "Login appeared to succeed but verification failed",
     "goto /channels/@me failed", "storage_state failed"}

IsWrappedLoginError == \E c \in LoginCauses : err = LoginErrorPrefix \o c

\* C17: every failure of _login after it has decided to submit credentials
\* is raised as 'Failed to login to Discord: <cause>'.
C17_FailuresAreWrapped ==
    (lpc = "raised" /\ HasEvent("goto /login")) => IsWrappedLoginError

\* The positions of an interaction in the call's trace.
EventAt(e) == {i \in 1..Len(ev) : ev[i] = e}

\* C25: logged_in is set only by a check that has just answered true; the
\* wait for /channels/ is entered only after the submit click, the wait that
\* saw the page leave /login and a verification indication, in that order;
\* and a call in which a step has failed returns no state.
C25_AuthenticatorStateMachine ==
    /\ (state.logged_in /\ ~arg.logged_in)
          => (checks # <<>> /\ checks[Len(checks)])
    /\ (lpc = "wait_verified" \/ HasEvent("wait /channels/"))
          => \E i \in EventAt("click submit") :
             \E j \in EventAt("wait left /login") :
             \E k \in EventAt("verification indicated") :
                 i < j /\ j < k
                 /\ \A w \in EventAt("wait /channels/") : k < w
    /\ err # "none" => (lpc = "raised" /\ ~Held.logged_in)
    /\ (lpc = "returned" /\ state.logged_in) => err = "none"

\* A call has returned logged in through the verification wait.
C25_Witness ==
    /\ lpc = "returned"
    /\ ~arg.logged_in
    /\ state.logged_in
    /\ checks = <<FALSE, TRUE>>
    /\ HasEvent("verification indicated")
    /\ HasEvent("wait /channels/")

\* How many times the call has clicked submit.
SubmitClicks == Cardinality(EventAt("click submit"))

\* The call went no further than the logged_in test or the first check.
NoOpOrCookieReuse ==
    /\ lpc = "returned"
    /\ arg.logged_in \/ (checks # <<>> /\ checks[1])

\* C26 as stated: zero clicks on the no-op and cookie-reuse paths, exactly one
\* in every other call.
C26_ExactlyOnceOtherwise ==
    /\ NoOpOrCookieReuse => SubmitClicks = 0
    /\ (lpc \in {"returned", "raised"} /\ ~NoOpOrCookieReuse)
          => SubmitClicks = 1

\* C26: at most one click in a call; none on the no-op and cookie-reuse paths
\* and in a call that failed before the click; exactly one in a call that
\* reached the click, however it ends.
C26_SubmittedAtMostOnce ==
    /\ SubmitClicks <= 1
    /\ NoOpOrCookieReuse => SubmitClicks = 0
    /\ (lpc = "raised"
          /\ err \in {"browser launch failed", "Browser page not initialized",
                      "goto /login failed", "fill email failed",
                      "fill password failed"})
          => SubmitClicks = 0
    /\ (lpc = "raised" /\ (err = "click submit failed" \/ IsWrappedLoginError))
          => SubmitClicks = 1
    /\ (lpc = "returned" /\ ~NoOpOrCookieReuse) => SubmitClicks = 1

\* A call has failed its post-login check after one click.
C26_Witness ==
    /\ lpc = "raised"
    /\ err = LoginErrorPrefix
               \o "Login appeared to succeed but verification failed"
    /\ checks = <<FALSE, FALSE>>
    /\ SubmitClicks = 1

\* C35: once a call has ended, every handle that was started and not closed
\* is in the state the caller holds.
C35_NoOrphanedBrowser ==
    Finished => started \subseteq HandlesOf(Held)

\* The fields no operation replaces.
FrameFields == {"email", "password", "headless", "cookies_file"}

\* C40: the state a call works on and returns differs from the one it was
\* given at most in playwright, browser, page and logged_in, and is logged in
\* if the given one was.
C40_StateFrame ==
    /\ \A f \in FrameFields : state[f] = arg[f]
    /\ arg.logged_in => state.logged_in
    /\ Finished => \A f \in FrameFields : Held[f] = arg[f]

\* A call given a logged-out state with headless = false has returned it
\* logged in, with its handles.
C40_Witness ==
    /\ lpc = "returned"
    /\ ~arg.logged_in
    /\ ~arg.headless
    /\ HandlesOf(arg) = {}
    /\ state.logged_in
    /\ HandlesOf(state) = {"playwright", "browser", "page"}
    /\ ~state.headless

-----------------------------------------------------------------------------
(* Properties of close_client, _ensure_browser and _check_logged_in *)

\* The closes of the handles the state holds, in the order page, browser,
\* process.
ExpectedCloses(st) ==
    (IF st.page # NoHandle THEN <<"page.close">> ELSE <<>>)
    \o (IF st.browser # NoHandle THEN <<"browser.close">> ELSE <<>>)
    \o (IF st.playwright # NoHandle THEN <<"playwright.stop">> ELSE <<>>)

\* C13: close_client never raises and attempts the close of every handle the
\* state holds, in the order page, browser, process, whichever of them fail.
C13_ClosesEveryHandleInOrder ==
    scall.op = "close_client"
        => /\ spc # "raised"
           /\ spc = "returned" => attempts = ExpectedCloses(scall.state)

\* C14: _ensure_browser on a state that holds process and page handles
\* returns that state and launches nothing; on a state without handles it
\* returns a state whose three handles are all non-null.
C14_EnsureBrowserFrame ==
    (scall.op = "_ensure_browser" /\ spc = "returned")
        => /\ (scall.state.playwright # NoHandle /\ scall.state.page # NoHandle)
                => (sret.state = scall.state /\ attempts = <<>>)
           /\ (scall.state.playwright = NoHandle
                 /\ scall.state.browser = NoHandle
                 /\ scall.state.page = NoHandle)
                => /\ sret.state.playwright # NoHandle
                   /\ sret.state.browser # NoHandle
                   /\ sret.state.page # NoHandle

\* A state with all its handles came back as it was.
C14_Witness ==
    /\ scall.op = "_ensure_browser"
    /\ spc = "returned"
    /\ scall.state.playwright # NoHandle
    /\ scall.state.browser # NoHandle
    /\ scall.state.page # NoHandle
    /\ sret.state = scall.state
    /\ attempts = <<>>

\* The navigation, the landmark wait or an element query raises or times
\* out, or there is no page.
CheckFails ==
    \/ scall.state.page = NoHandle
    \/ ~scall.obs.goto
    \/ ~scall.obs.landmark
    \/ ~scall.obs.queries

\* C16: _check_logged_in never raises, and returns false whenever there is
\* no page or the navigation, the landmark wait or an element query fails.
C16_CheckLoggedInFailClosed ==
    scall.op = "_check_logged_in"
        => /\ spc # "raised"
           /\ (spc = "returned" /\ CheckFails) => ~sret.value

\* The landmark wait timed out on a page that otherwise looks authenticated.
C16_Witness ==
    /\ scall.op = "_check_logged_in"
    /\ spc = "returned"
    /\ scall.state.page # NoHandle
    /\ scall.obs = [AuthenticatedView EXCEPT !.landmark = FALSE]
    /\ ~sret.value

\* C34: _check_logged_in answers true only for a page whose URL holds
\* neither /login nor /register, holds /channels/@me, and on which the guild
\* list container is found; it answers false when one of the three fails.
C34_TrueOnlyIfAllThree ==
    (scall.op = "_check_logged_in" /\ spc = "returned")
        => (sret.value
              => /\ "/login" \notin scall.obs.url
                 /\ "/register" \notin scall.obs.url
                 /\ "/channels/@me" \in scall.obs.url
                 /\ scall.obs.guildsnav)

\* The check has answered true on a page without the settings control.
C34_Witness ==
    /\ scall.op = "_check_logged_in"
    /\ spc = "returned"
    /\ scall.obs = [AuthenticatedView EXCEPT !.user_settings = FALSE]
    /\ sret.value

-----------------------------------------------------------------------------
(* Properties of call_tool *)

\* The invocation holds the client between two of its own operations, or
\* inside one.
Underway(p) ==
    \/ procs[p].pc = "run"
    \/ procs[p].pc = "call" /\ procs[p].began

\* C6: tool invocations are serialized: while one invocation is underway
\* (it has started its browser interactions and has not returned), the other
\* has no core operation running on the shared page.
C6_InvocationsSerialized ==
    \A p \in Procs : \A q \in Procs \ {p} :
        Underway(p) => procs[q].pc # "run"

\* The tools whose core operation is called with no try of its own around it.
DirectTools == {"get_servers", "read_messages", "send_message"}

IsErrorPayload(r) ==
    /\ Len(r.resp) = 1
    /\ r.resp[1].type = "text"
    /\ r.resp[1].shape = "object"
    /\ r.resp[1].keys = {"error", "tool", "arguments"}
    /\ r.resp[1].error = r.exc
    /\ r.resp[1].tool = r.tool
    /\ r.resp[1].arguments = r.arguments

\* C7: call_tool never raises; when an exception reaches its handler, and so
\* whenever the core operation of a directly dispatched tool raises, it
\* returns exactly one text item whose JSON object has the keys error, tool
\* and arguments, with the invoked name and the given arguments.
C7_NeverRaisesErrorPayload ==
    \A p \in Procs :
        /\ procs[p].pc # "raised"
        /\ (procs[p].pc = "done" /\ procs[p].exc # "none")
              => IsErrorPayload(procs[p])
        /\ (procs[p].pc = "done" /\ procs[p].failed
                /\ procs[p].tool \in DirectTools)
              => procs[p].exc # "none" /\ IsErrorPayload(procs[p])

C7_Witness ==
    \E p \in Procs :
        /\ procs[p].tool = "get_servers"
        /\ procs[p].pc = "done"
        /\ procs[p].failed
        /\ procs[p].resp =
             <<ErrorContent("get_guilds failed", "get_servers", NoArgs)>>

\* C8: an invocation in which a core operation failed returns an error
\* payload, never a success result.
C8_FailureYieldsErrorPayload ==
    \A p \in Procs :
        (procs[p].pc = "done" /\ procs[p].failed)
            => /\ Len(procs[p].resp) = 1
               /\ procs[p].resp[1].keys = {"error", "tool", "arguments"}

\* C9: send_message with content of length 0 or above 2000 never reaches the
\* core send operation.
C9_ContentLengthValidated ==
    \A p \in Procs :
        (procs[p].tool = "send_message"
            /\ procs[p].arguments.content \notin 1..2000)
            => ~procs[p].sent

\* C23: a send_message invocation whose core send succeeded returns a JSON
\* object with the keys message_id and status.
C23_SendResultHasStatus ==
    \A p \in Procs :
        (procs[p].tool = "send_message" /\ procs[p].pc = "done"
            /\ procs[p].sent /\ ~procs[p].failed)
            => /\ procs[p].resp[1].shape = "object"
               /\ {"message_id", "status"} \subseteq procs[p].resp[1].keys

\* C24: call_tool("get_channels", ...) is dispatched to the core and returns
\* a JSON list of channel objects with the keys id, name and type.
C24_GetChannelsDispatched ==
    \A p \in Procs :
        (procs[p].tool = "get_channels" /\ procs[p].pc = "done")
            => /\ procs[p].began
               /\ procs[p].resp[1].shape = "array"
               /\ {"id", "name", "type"} \subseteq procs[p].resp[1].keys

-----------------------------------------------------------------------------
(* The specifications *)

\* One call of get_channel_messages, from its first query to its return.
InitMessagesOnly ==
    /\ InitMessages
    /\ LoginIdle
    /\ ToolsIdle
    /\ SessionIdle
    /\ ExtractIdle
    /\ OpsIdle
    /\ ReadIdle

NextMessages ==
    GetChannelMessagesRound /\ UNCHANGED <<loginVars, toolVars, sessionVars, extractVars, opVars, readVars>>

SpecMessages == InitMessagesOnly /\ [][NextMessages]_vars

\* The same call on an event loop that keeps running it.
SpecMessagesFair == SpecMessages /\ WF_vars(NextMessages)

\* Calls of _login, one after the other.
InitLoginOnly ==
    /\ MessagesIdle
    /\ InitLogin
    /\ ToolsIdle
    /\ SessionIdle
    /\ ExtractIdle
    /\ OpsIdle
    /\ ReadIdle

NextLogin ==
    \/ LoginCall /\ UNCHANGED <<msgVars, toolVars, sessionVars, extractVars, opVars, readVars>>
    \/ EnsureBrowser /\ UNCHANGED <<msgVars, toolVars, sessionVars, extractVars, opVars, readVars>>
    \/ FirstCheck /\ UNCHANGED <<msgVars, toolVars, sessionVars, extractVars, opVars, readVars>>
    \/ GotoLogin /\ UNCHANGED <<msgVars, toolVars, sessionVars, extractVars, opVars, readVars>>
    \/ FillEmail /\ UNCHANGED <<msgVars, toolVars, sessionVars, extractVars, opVars, readVars>>
    \/ FillPassword /\ UNCHANGED <<msgVars, toolVars, sessionVars, extractVars, opVars, readVars>>
    \/ ClickSubmit /\ UNCHANGED <<msgVars, toolVars, sessionVars, extractVars, opVars, readVars>>
    \/ WaitLeftLogin /\ UNCHANGED <<msgVars, toolVars, sessionVars, extractVars, opVars, readVars>>
    \/ CountCheckEmail /\ UNCHANGED <<msgVars, toolVars, sessionVars, extractVars, opVars, readVars>>
    \/ WaitVerified /\ UNCHANGED <<msgVars, toolVars, sessionVars, extractVars, opVars, readVars>>
    \/ SecondCheck /\ UNCHANGED <<msgVars, toolVars, sessionVars, extractVars, opVars, readVars>>
    \/ Settle /\ UNCHANGED <<msgVars, toolVars, sessionVars, extractVars, opVars, readVars>>
    \/ SaveStorageState /\ UNCHANGED <<msgVars, toolVars, sessionVars, extractVars, opVars, readVars>>

SpecLogin == InitLoginOnly /\ [][NextLogin]_vars

\* Two concurrent call_tool invocations.
InitToolsOnly ==
    /\ MessagesIdle
    /\ LoginIdle
    /\ InitTools
    /\ SessionIdle
    /\ ExtractIdle
    /\ OpsIdle
    /\ ReadIdle

NextTools ==
    \E p \in Procs :
        \/ CallTool(p) /\ UNCHANGED <<msgVars, loginVars, sessionVars, extractVars, opVars, readVars>>
        \/ ClientEnter(p) /\ UNCHANGED <<msgVars, loginVars, sessionVars, extractVars, opVars, readVars>>
        \/ ClientLeave(p) /\ UNCHANGED <<msgVars, loginVars, sessionVars, extractVars, opVars, readVars>>

SpecTools == InitToolsOnly /\ [][NextTools]_vars

\* One call of close_client, _ensure_browser or _check_logged_in.
InitSessionOnly ==
    /\ MessagesIdle
    /\ LoginIdle
    /\ ToolsIdle
    /\ InitSession
    /\ ExtractIdle
    /\ OpsIdle
    /\ ReadIdle

NextSession ==
    \/ CloseBrowser /\ UNCHANGED <<msgVars, loginVars, toolVars, extractVars, opVars, readVars>>
    \/ StopPlaywright /\ UNCHANGED <<msgVars, loginVars, toolVars, extractVars, opVars, readVars>>
    \/ EnsureBrowserCall /\ UNCHANGED <<msgVars, loginVars, toolVars, extractVars, opVars, readVars>>
    \/ CheckLoggedInCall /\ UNCHANGED <<msgVars, loginVars, toolVars, extractVars, opVars, readVars>>

SpecSession == InitSessionOnly /\ [][NextSession]_vars

\* One call of get_guilds or get_guild_channels on a logged-in state.
InitExtractOnly ==
    /\ MessagesIdle
    /\ LoginIdle
    /\ ToolsIdle
    /\ SessionIdle
    /\ InitExtract
    /\ OpsIdle
    /\ ReadIdle

NextExtract ==
    \/ GuildsGoto /\ UNCHANGED <<msgVars, loginVars, toolVars, sessionVars, opVars, readVars>>
    \/ EvaluateGuilds /\ UNCHANGED <<msgVars, loginVars, toolVars, sessionVars, opVars, readVars>>
    \/ ClickElement /\ UNCHANGED <<msgVars, loginVars, toolVars, sessionVars, opVars, readVars>>
    \/ GuildsReturn /\ UNCHANGED <<msgVars, loginVars, toolVars, sessionVars, opVars, readVars>>
    \/ ChannelsGoto /\ UNCHANGED <<msgVars, loginVars, toolVars, sessionVars, opVars, readVars>>
    \/ WaitForChannelLink /\ UNCHANGED <<msgVars, loginVars, toolVars, sessionVars, opVars, readVars>>
    \/ ExtractChannels /\ UNCHANGED <<msgVars, loginVars, toolVars, sessionVars, opVars, readVars>>

SpecExtract == InitExtractOnly /\ [][NextExtract]_vars


InitOpsOnly ==
    /\ MessagesIdle
    /\ LoginIdle
    /\ ToolsIdle
    /\ SessionIdle
    /\ ExtractIdle
    /\ InitOps
    /\ ReadIdle

NextOps ==
    \/ OpCall /\ UNCHANGED <<msgVars, loginVars, toolVars, sessionVars, extractVars, readVars>>
    \/ CloseClient /\ UNCHANGED <<msgVars, loginVars, toolVars, sessionVars, extractVars, readVars>>
    \/ OpLogin /\ UNCHANGED <<msgVars, loginVars, toolVars, sessionVars, extractVars, readVars>>
    \/ OpGoto /\ UNCHANGED <<msgVars, loginVars, toolVars, sessionVars, extractVars, readVars>>
    \/ OpWait /\ UNCHANGED <<msgVars, loginVars, toolVars, sessionVars, extractVars, readVars>>
    \/ OpExtract /\ UNCHANGED <<msgVars, loginVars, toolVars, sessionVars, extractVars, readVars>>
    \/ SendQueryComposer /\ UNCHANGED <<msgVars, loginVars, toolVars, sessionVars, extractVars, readVars>>
    \/ SendFill /\ UNCHANGED <<msgVars, loginVars, toolVars, sessionVars, extractVars, readVars>>
    \/ SendPressEnter /\ UNCHANGED <<msgVars, loginVars, toolVars, sessionVars, extractVars, readVars>>
    \/ SendReturn /\ UNCHANGED <<msgVars, loginVars, toolVars, sessionVars, extractVars, readVars>>

SpecOps == InitOpsOnly /\ [][NextOps]_vars

\* One call of read_recent_messages.
InitReadOnly ==
    /\ MessagesIdle
    /\ LoginIdle
    /\ ToolsIdle
    /\ SessionIdle
    /\ ExtractIdle
    /\ OpsIdle
    /\ InitRead

NextRead ==
    \/ ReadRecentMessagesRound /\ UNCHANGED <<msgVars, loginVars, toolVars, sessionVars, extractVars, opVars>>
    \/ ReadRecentMessagesExit /\ UNCHANGED <<msgVars, loginVars, toolVars, sessionVars, extractVars, opVars>>

SpecRead == InitReadOnly /\ [][NextRead]_vars

\* The same call on an event loop that keeps running it.
SpecReadFair == SpecRead /\ WF_vars(NextRead)

=============================================================================
